---- MODULE Spec2Model ----
(***************************************************************************)
(* Device Command & Telemetry Gateway of the FarmFlow dashboard.           *)
(*                                                                         *)
(* The command queue is the edge function                                  *)
(* supabase/functions/esp32-commands/index.ts; the telemetry ingest is the *)
(* edge function supabase/functions/esp32-data/index.ts (with its earlier  *)
(* direct-write variant) over supabase/complete_schema.sql.                *)
(*                                                                         *)
(* Every store round trip (an awaited query) is atomic; a handler with     *)
(* several writes is a process that other requests interleave with.        *)
(***************************************************************************)
EXTENDS Integers, Sequences, FiniteSets, TLC

VARIABLES
    now,           \* the clock read by new Date() / NOW()
    api_keys,      \* table api_keys: set of rows
    devices,       \* table devices: device id -> row
    commands,      \* table commands: sequence of rows, the id is the index
    command_logs,  \* table command_logs: the number of its rows
    rpc,           \* retrieval request p: position in handleCommandRetrieval
    rdev,          \* retrieval request p: its device_id parameter
    rbatch,        \* retrieval request p: the rows' ids its select returned
    device_commands, \* table device_commands: sequence of rows
    sensor_data,   \* table sensor_data: sequence of rows, the id is the index
    realtime_cache, \* table realtime_cache: <<zone_id, device_id>> -> row
    alerts,        \* table alerts: sequence of rows
    ipc,           \* direct ingest request p: position in the handler
    ireq,          \* direct ingest request p: its body
    gpc,           \* dashboard call g of deviceService: its position
    gdev,          \* dashboard call g: the device it generates a key for
    booted,        \* firmware: setup() has run
    isOnline,      \* firmware: bool isOnline
    failedTransmissions, \* firmware: int failedTransmissions
    dataBuffer,    \* firmware: dataBuffer[0 .. bufferIndex - 1]
    lastReading,   \* firmware: the number of readAllSensors() calls so far
    delivered,     \* firmware: the readings whose POST got an HTTP answer
    resp           \* the response sent by the last step (NoResp if none)

queueVars == <<commands, command_logs, rpc, rdev, rbatch, device_commands>>
ingestVars == <<sensor_data, realtime_cache, alerts, ipc, ireq>>

keygenVars == <<gpc, gdev>>
firmwareVars == <<booted, isOnline, failedTransmissions, dataBuffer, lastReading, delivered>>
clientVars == <<keygenVars, firmwareVars>>

vars == <<now, api_keys, devices, queueVars, ingestVars, clientVars, resp>>

(***************************************************************************)
(* Bounds of the model.                                                    *)
(***************************************************************************)
MaxTime == 1
MaxCmds == 2
MaxLogs == 3
MaxLimit == 1

\* The retrieval requests that may be in flight together.
Retrievers == {"r1", "r2"}

NoTime == -1
NoUser == "none"
NoDevice == "none"

Users == {"u1", "u2"}
DeviceIds == {"d1", "d2"}

(***************************************************************************)
(* API keys.  A key is generated as a plaintext and stored as its crypt()  *)
(* hash in api_keys.key_hash.                                              *)
(***************************************************************************)
KeyNames == {"k1", "k2", "k3"}

Plain(k) == [kind |-> "plain", of |-> k]
Hashed(k) == [kind |-> "hash", of |-> k]

\* The strings a caller may present as apiKey.
PresentedKeys == {Hashed(k) : k \in KeyNames} \cup {Plain("k1")}

(***************************************************************************)
(* JavaScript values carried in a command's parameters object.             *)
(***************************************************************************)
Num(n) == [t |-> "number", n |-> n, s |-> <<>>]
Str(s) == [t |-> "string", n |-> 0, s |-> s]

Digits == <<"0", "1", "2", "3", "4", "5", "6", "7", "8", "9">>

IsDigit(c) == \E d \in 1..Len(Digits) : Digits[d] = c

DigitValue(c) == (CHOOSE d \in 1..Len(Digits) : Digits[d] = c) - 1

AllDigits(s, a, b) == a <= b /\ \A k \in a..b : IsDigit(s[k])

RECURSIVE DecimalValue(_)
DecimalValue(s) ==
    IF s = <<>> THEN 0
    ELSE 10 * DecimalValue(SubSeq(s, 1, Len(s) - 1)) + DigitValue(s[Len(s)])

\* ToNumber as the relational operators < and > apply it to an operand:
\* a number is itself, a string of digits its value, the empty string 0,
\* any other string NaN.
ToNumber(v) ==
    IF v.t = "number" THEN [nan |-> FALSE, n |-> v.n]
    ELSE IF v.s = <<>> THEN [nan |-> FALSE, n |-> 0]
    ELSE IF AllDigits(v.s, 1, Len(v.s)) THEN [nan |-> FALSE, n |-> DecimalValue(v.s)]
    ELSE [nan |-> TRUE, n |-> 0]

\* v < n and v > n of JavaScript: false whenever an operand is NaN.
JsLess(v, n) == ~ToNumber(v).nan /\ ToNumber(v).n < n
JsGreater(v, n) == ~ToNumber(v).nan /\ ToNumber(v).n > n

\* /^v\d+\.\d+\.\d+$/.test(v): a number's string form never begins with v.
PatternTest(v) ==
    /\ v.t = "string"
    /\ Len(v.s) >= 6
    /\ v.s[1] = "v"
    /\ \E i, j \in 3..(Len(v.s) - 1) :
          /\ i < j
          /\ v.s[i] = "."
          /\ v.s[j] = "."
          /\ AllDigits(v.s, 2, i - 1)
          /\ AllDigits(v.s, i + 1, j - 1)
          /\ AllDigits(v.s, j + 1, Len(v.s))

(***************************************************************************)
(* Command Schema Registry.                                                *)
(***************************************************************************)
NoRule == [isArray |-> FALSE, type |-> "none", hasMin |-> FALSE, min |-> 0,
           hasMax |-> FALSE, max |-> 0, hasPattern |-> FALSE, values |-> {}]

RangeRule(lo, hi) == [NoRule EXCEPT !.hasMin = TRUE, !.min = lo, !.hasMax = TRUE, !.max = hi]
TypeRule(ty) == [NoRule EXCEPT !.type = ty]
PatternRule(ty) == [NoRule EXCEPT !.type = ty, !.hasPattern = TRUE]
ArrayRule(vals) == [NoRule EXCEPT !.isArray = TRUE, !.values = vals]

SensorTypeNames ==
    { <<"m","o","i","s","t","u","r","e">>, <<"t","e","m","p","e","r","a","t","u","r","e">>,
      <<"h","u","m","i","d","i","t","y">>, <<"l","i","g","h","t">> }

CommandTypes ==
    {"PUMP_ON", "PUMP_OFF", "PUMP_DURATION", "CALIBRATE_SENSOR",
     "UPDATE_FIRMWARE", "SYSTEM_REBOOT", "GET_STATUS"}

COMMAND_SCHEMAS ==
    [ty \in CommandTypes |->
        CASE ty = "PUMP_ON" ->
               [required |-> <<>>, optional |-> <<"duration">>, validation |-> <<>>]
          [] ty = "PUMP_OFF" ->
               [required |-> <<>>, optional |-> <<>>, validation |-> <<>>]
          [] ty = "PUMP_DURATION" ->
               [required |-> <<"duration">>, optional |-> <<"intensity">>,
                validation |-> << <<"duration", RangeRule(1000, 300000)>> >>]
          [] ty = "CALIBRATE_SENSOR" ->
               [required |-> <<"sensor_type", "min_value", "max_value">>,
                optional |-> <<"unit">>,
                validation |-> << <<"sensor_type", ArrayRule(SensorTypeNames)>>,
                                  <<"min_value", TypeRule("number")>>,
                                  <<"max_value", TypeRule("number")>> >>]
          [] ty = "UPDATE_FIRMWARE" ->
               [required |-> <<"version">>, optional |-> <<"url", "checksum">>,
                validation |-> << <<"version", PatternRule("string")>> >>]
          [] ty = "SYSTEM_REBOOT" ->
               [required |-> <<>>, optional |-> <<"delay">>,
                validation |-> << <<"delay", RangeRule(0, 60000)>> >>]
          [] ty = "GET_STATUS" ->
               [required |-> <<>>, optional |-> <<"include_sensors", "include_network">>,
                validation |-> <<>>]]

\* The errors one validation entry pushes, in the order of its five tests.
RuleErrors(param, rules, parameters) ==
    IF param \notin DOMAIN parameters THEN <<>>
    ELSE LET v == parameters[param] IN
         (IF rules.type = "number" /\ v.t # "number"
             THEN << <<"must be a number", param>> >> ELSE <<>>)
      \o (IF rules.hasMin /\ JsLess(v, rules.min)
             THEN << <<"must be at least", param>> >> ELSE <<>>)
      \o (IF rules.hasMax /\ JsGreater(v, rules.max)
             THEN << <<"must be at most", param>> >> ELSE <<>>)
      \o (IF rules.hasPattern /\ ~PatternTest(v)
             THEN << <<"format is invalid", param>> >> ELSE <<>>)
      \o (IF rules.isArray /\ ~(v.t = "string" /\ v.s \in rules.values)
             THEN << <<"must be one of", param>> >> ELSE <<>>)

RECURSIVE ValidationErrors(_, _)
ValidationErrors(entries, parameters) ==
    IF entries = <<>> THEN <<>>
    ELSE RuleErrors(Head(entries)[1], Head(entries)[2], parameters)
           \o ValidationErrors(Tail(entries), parameters)

MissingErrors(required, parameters) ==
    LET missing == SelectSeq(required, LAMBDA r : r \notin DOMAIN parameters)
    IN  [i \in 1..Len(missing) |-> <<"Missing required parameter", missing[i]>>]

\* validateCommand without its loop over schema.required.
validateCommandNoRequired(commandType, parameters) ==
    IF commandType \notin DOMAIN COMMAND_SCHEMAS
    THEN [valid |-> FALSE, errors |-> << <<"Unknown command type", commandType>> >>]
    ELSE LET errors == ValidationErrors(COMMAND_SCHEMAS[commandType].validation, parameters)
         IN  [valid |-> errors = <<>>, errors |-> errors]

\* validateCommand with its loop over schema.required stopping after the first entry.
validateCommandFirstRequired(commandType, parameters) ==
    IF commandType \notin DOMAIN COMMAND_SCHEMAS
    THEN [valid |-> FALSE, errors |-> << <<"Unknown command type", commandType>> >>]
    ELSE LET schema == COMMAND_SCHEMAS[commandType]
             first == IF schema.required = <<>> THEN <<>> ELSE <<Head(schema.required)>>
             errors == MissingErrors(first, parameters)
                         \o ValidationErrors(schema.validation, parameters)
         IN  [valid |-> errors = <<>>, errors |-> errors]

validateCommand(commandType, parameters) ==
    IF commandType \notin DOMAIN COMMAND_SCHEMAS
    THEN [valid |-> FALSE, errors |-> << <<"Unknown command type", commandType>> >>]
    ELSE LET schema == COMMAND_SCHEMAS[commandType]
             errors == MissingErrors(schema.required, parameters)
                         \o ValidationErrors(schema.validation, parameters)
         IN  [valid |-> errors = <<>>, errors |-> errors]

\* The request bodies the queue is exercised with.
NoParams == [x \in {} |-> Num(0)]

SendBodies ==
    { [command_type |-> "PUMP_DURATION", parameters |-> ("duration" :> Num(1000))],
      [command_type |-> "PUMP_DURATION", parameters |-> ("duration" :> Num(500))],
      [command_type |-> "PUMP_DURATION", parameters |-> NoParams],
      [command_type |-> "SELF_DESTRUCT", parameters |-> NoParams] }

(***************************************************************************)
(* The store the command handlers work on.                                 *)
(***************************************************************************)
Priorities == {"low", "normal", "high", "urgent"}

Letters == <<"a", "b", "c", "d", "e", "f", "g", "h", "i", "j", "k", "l", "m",
             "n", "o", "p", "q", "r", "s", "t", "u", "v", "w", "x", "y", "z">>

LetterRank(c) == CHOOSE i \in 1..Len(Letters) : Letters[i] = c

\* The text a priority column holds, letter by letter.
PriorityText(p) ==
    CASE p = "low"    -> <<"l", "o", "w">>
      [] p = "normal" -> <<"n", "o", "r", "m", "a", "l">>
      [] p = "high"   -> <<"h", "i", "g", "h">>
      [] p = "urgent" -> <<"u", "r", "g", "e", "n", "t">>

\* a < b for two texts, as the store compares the values of a text column.
TextLess(a, b) ==
    \E i \in 1..(Len(b)) :
        /\ \A j \in 1..(i - 1) : j <= Len(a) /\ a[j] = b[j]
        /\ \/ i = Len(a) + 1
           \/ i <= Len(a) /\ LetterRank(a[i]) < LetterRank(b[i])

Statuses == {"pending", "in_progress", "executed", "failed", "cancelled", "timeout"}
TerminalStatuses == {"executed", "failed", "cancelled", "timeout"}

\* The statuses a report body is exercised with.
ReportStatuses == {"executed", "failed", "pending", "done"}

NoKey == [kind |-> "absent", of |-> "none"]

NoResp ==
    [op |-> "none", status |-> 0, error |-> "none", details |-> <<>>, commands |-> <<>>,
     irrigation_needed |-> FALSE]

Response(op, status, error) == [NoResp EXCEPT !.op = op, !.status = status, !.error = error]

(***************************************************************************)
(* Zones, readings and the freshness cache.                                *)
(***************************************************************************)
ZoneIds == {"z1", "z2"}
NoZone == "none"
NoValue == -1

\* Table zones: the handlers only read it.
zones ==
    [z \in ZoneIds |->
        IF z = "z1" THEN [user_id |-> "u1", moisture_threshold |-> 30, auto_watering |-> FALSE]
        ELSE [user_id |-> "u2", moisture_threshold |-> NoValue, auto_watering |-> FALSE]]

\* The direct ingest requests that may be in flight together.
Ingesters == {"i1", "i2"}

NoRow == [present |-> FALSE, moisture_value |-> NoValue, temperature_value |-> NoValue,
          humidity_value |-> NoValue, light_value |-> NoValue, last_updated |-> NoTime,
          data_freshness |-> 0]

NoIngest == [device_id |-> NoDevice, zone_id |-> NoZone, sensor_type |-> "none", value |-> NoValue]

\* The dashboard calls of deviceService that may be in progress at once.
Generators == {"g1", "g2"}

KeyRow(k, u, d, a) == [key_hash |-> Hashed(k), user_id |-> u, device_id |-> d, is_active |-> a]

DeviceRow(u) ==
    [user_id |-> u, last_seen |-> 0, last_heartbeat |-> 0, is_online |-> FALSE,
     connection_status |-> "disconnected"]

Init ==
    /\ now = 0
    /\ api_keys = {KeyRow("k1", "u1", "d1", TRUE), KeyRow("k2", "u2", "d2", TRUE),
                   KeyRow("k3", "u1", "d1", FALSE)}
    /\ devices = [d \in DeviceIds |-> DeviceRow(IF d = "d1" THEN "u1" ELSE "u2")]
    /\ commands = <<>>
    /\ command_logs = 0
    /\ rpc = [p \in Retrievers |-> "idle"]
    /\ rdev = [p \in Retrievers |-> NoDevice]
    /\ rbatch = [p \in Retrievers |-> <<>>]
    /\ device_commands = <<>>
    /\ sensor_data = <<>>
    /\ realtime_cache = [zd \in ZoneIds \X DeviceIds |-> NoRow]
    /\ alerts = <<>>
    /\ ipc = [p \in Ingesters |-> "idle"]
    /\ ireq = [p \in Ingesters |-> NoIngest]
    /\ gpc = [g \in Generators |-> "idle"]
    /\ gdev = [g \in Generators |-> NoDevice]
    /\ booted = FALSE
    /\ isOnline = FALSE
    /\ failedTransmissions = 0
    /\ dataBuffer = <<>>
    /\ lastReading = 0
    /\ delivered = {}
    /\ resp = NoResp

\* Time passes between two requests or two round trips of one.
Tick ==
    /\ now < MaxTime
    /\ now' = now + 1
    /\ resp' = NoResp
    /\ UNCHANGED <<clientVars, api_keys, devices, queueVars, ingestVars>>

(***************************************************************************)
(* POST: handleCommandSend.                                                *)
(***************************************************************************)
NormalisePriority(priority) == IF priority \in Priorities THEN priority ELSE "normal"

\* A JavaScript value in a condition: 0, NaN and the empty string are falsy.
Truthy(v) == IF v.t = "number" THEN v.n # 0 ELSE v.s # <<>>

\* estimates[commandType] || 1000, with 'PUMP_DURATION': parameters.duration || 5000
estimateExecutionTime(commandType, parameters) ==
    CASE commandType = "PUMP_ON" -> Num(1000)
      [] commandType = "PUMP_OFF" -> Num(100)
      [] commandType = "PUMP_DURATION" ->
             IF "duration" \in DOMAIN parameters /\ Truthy(parameters["duration"])
             THEN parameters["duration"] ELSE Num(5000)
      [] commandType = "CALIBRATE_SENSOR" -> Num(2000)
      [] commandType = "UPDATE_FIRMWARE" -> Num(300000)
      [] commandType = "SYSTEM_REBOOT" -> Num(10000)
      [] commandType = "GET_STATUS" -> Num(500)
      [] OTHER -> Num(1000)

NewCommand(user, device_id, body, priority) ==
    [device_id |-> device_id, user_id |-> user, command_type |-> body.command_type,
     priority |-> NormalisePriority(priority), status |-> "pending", created_at |-> now,
     estimated_execution_time |-> estimateExecutionTime(body.command_type, body.parameters),
     retrieved_at |-> NoTime, executed_at |-> NoTime, completed_at |-> NoTime,
     cancelled_at |-> NoTime, cancelled_by |-> NoUser]

\* The device lookup without .eq('user_id', user.id).
OwnedDeviceAny(user, device_id) == device_id \in DOMAIN devices

\* .from('devices').eq('id', device_id).eq('user_id', user.id).single()
OwnedDevice(user, device_id) ==
    device_id \in DOMAIN devices /\ devices[device_id].user_id = user

handleCommandSend(user, device_id, body, priority) ==
    /\ UNCHANGED <<clientVars, now, api_keys, devices, rpc, rdev, rbatch, device_commands, ingestVars>>
    /\ IF user = NoUser
       THEN /\ resp' = Response("send", 401, "Unauthorized")
            /\ UNCHANGED <<commands, command_logs>>
       ELSE IF device_id = NoDevice
       THEN /\ resp' = Response("send", 400, "Missing required fields")
            /\ UNCHANGED <<commands, command_logs>>
       ELSE IF body.command_type \notin DOMAIN COMMAND_SCHEMAS
       THEN /\ resp' = Response("send", 400, "Invalid command type")
            /\ UNCHANGED <<commands, command_logs>>
       ELSE IF ~validateCommand(body.command_type, body.parameters).valid
       THEN /\ resp' = [Response("send", 400, "Command validation failed") EXCEPT
                          !.details = validateCommand(body.command_type, body.parameters).errors]
            /\ UNCHANGED <<commands, command_logs>>
       ELSE IF ~OwnedDevice(user, device_id)
       THEN /\ resp' = Response("send", 404, "Device not found or access denied")
            /\ UNCHANGED <<commands, command_logs>>
       ELSE /\ Len(commands) < MaxCmds
            /\ command_logs < MaxLogs
            /\ commands' = Append(commands, NewCommand(user, device_id, body, priority))
            /\ command_logs' = command_logs + 1
            /\ resp' = [Response("send", 200, "none") EXCEPT !.commands = <<Len(commands) + 1>>]

(***************************************************************************)
(* GET: handleCommandRetrieval.  The select and the update are two round   *)
(* trips; the log inserts that follow the update write command_logs only.  *)
(***************************************************************************)
DefaultLimit == 10

Limits == (0..MaxLimit) \cup {DefaultLimit}

PriorityFilters == {"all", "high"}

\* The key lookup without .eq('is_active', true).
ActiveKeyRowsAnyState(apiKey) == {k \in api_keys : k.key_hash = apiKey}

\* .eq('key_hash', apiKey).eq('is_active', true)
ActiveKeyRows(apiKey) == {k \in api_keys : k.key_hash = apiKey /\ k.is_active}

\* .eq('key_hash', apiKey)
KeyRows(apiKey) == {k \in api_keys : k.key_hash = apiKey}

\* .single(): the row when exactly one row matches, an error otherwise.
IsSingle(rows) == Cardinality(rows) = 1
Single(rows) == CHOOSE r \in rows : TRUE

\* .order('priority', { ascending: false }): row a sorts strictly before row b.
PriorityBefore(a, b) == TextLess(PriorityText(b.priority), PriorityText(a.priority))

\* .order('priority', desc).order('created_at', asc)
RowBefore(a, b) ==
    \/ PriorityBefore(a, b)
    \/ a.priority = b.priority /\ a.created_at < b.created_at

\* .eq('device_id', ..).eq('status', 'pending').eq('user_id', ..) [.eq('priority', ..)]
PendingIds(device_id, user_id, priority) ==
    {i \in 1..Len(commands) :
        /\ commands[i].device_id = device_id
        /\ commands[i].status = "pending"
        /\ commands[i].user_id = user_id
        /\ (priority = "all" \/ commands[i].priority = priority)}

Min(a, b) == IF a < b THEN a ELSE b

\* The rows a query may return: the first `limit` of any order of the matching
\* rows that respects the sort keys (rows with equal keys come in any order).
QueryResults(ids, limit) ==
    LET n == Cardinality(ids)
        orders == {f \in [1..n -> ids] :
                     /\ \A i, j \in 1..n : i # j => f[i] # f[j]
                     /\ \A i, j \in 1..n : i < j => ~RowBefore(commands[f[j]], commands[f[i]])}
    IN  {SubSeq(f, 1, Min(limit, n)) : f \in orders}

SeqRange(q) == {q[i] : i \in 1..Len(q)}

\* The update filtered by .eq('status', 'pending') instead of .in('id', commandIds).
MarkRetrievedPending(ids) ==
    [i \in 1..Len(commands) |->
        IF commands[i].status = "pending"
        THEN [commands[i] EXCEPT !.status = "in_progress", !.retrieved_at = now]
        ELSE commands[i]]

\* .update({status: 'in_progress', retrieved_at}).in('id', commandIds)
MarkRetrieved(ids) ==
    [i \in 1..Len(commands) |->
        IF i \in ids
        THEN [commands[i] EXCEPT !.status = "in_progress", !.retrieved_at = now]
        ELSE commands[i]]

RetrievalSelect(p, device_id, apiKey, limit, priority) ==
    /\ rpc[p] = "idle"
    /\ UNCHANGED <<clientVars, now, api_keys, devices, commands, command_logs, device_commands, ingestVars>>
    /\ IF device_id = NoDevice \/ apiKey = NoKey
       THEN /\ resp' = Response("retrieve", 400, "Missing required parameters")
            /\ UNCHANGED <<rpc, rdev, rbatch>>
       ELSE IF ~IsSingle(ActiveKeyRows(apiKey))
       THEN /\ resp' = Response("retrieve", 401, "Invalid or inactive API key")
            /\ UNCHANGED <<rpc, rdev, rbatch>>
       ELSE IF Single(ActiveKeyRows(apiKey)).device_id # device_id
       THEN /\ resp' = Response("retrieve", 403, "API key not authorized for this device")
            /\ UNCHANGED <<rpc, rdev, rbatch>>
       ELSE LET user_id == Single(ActiveKeyRows(apiKey)).user_id IN
            /\ \E result \in QueryResults(PendingIds(device_id, user_id, priority), limit) :
                  rbatch' = [rbatch EXCEPT ![p] = result]
            /\ rdev' = [rdev EXCEPT ![p] = device_id]
            /\ rpc' = [rpc EXCEPT ![p] = "selected"]
            /\ resp' = NoResp

RetrievalUpdate(p) ==
    /\ rpc[p] = "selected"
    /\ command_logs + Len(rbatch[p]) <= MaxLogs
    /\ commands' = MarkRetrieved(SeqRange(rbatch[p]))
    /\ command_logs' = command_logs + Len(rbatch[p])
    /\ resp' = [Response("retrieve", 200, "none") EXCEPT !.commands = rbatch[p]]
    /\ rpc' = [rpc EXCEPT ![p] = "idle"]
    /\ rdev' = [rdev EXCEPT ![p] = NoDevice]
    /\ rbatch' = [rbatch EXCEPT ![p] = <<>>]
    /\ UNCHANGED <<clientVars, now, api_keys, devices, device_commands, ingestVars>>

(***************************************************************************)
(* PUT: handleCommandStatusUpdate.                                         *)
(***************************************************************************)
validStatuses == {"pending", "in_progress", "executed", "failed", "cancelled", "timeout"}

\* updateData applied to the row: executed_at and completed_at are always written.
StatusUpdated(row, status) ==
    [row EXCEPT !.status = status,
                !.executed_at = IF status = "executed" THEN now ELSE NoTime,
                !.completed_at = IF status \in {"executed", "failed", "cancelled", "timeout"}
                                 THEN now ELSE NoTime]

\* .update(..).eq('id', command_id).eq('user_id', user_id): the rows it matches.
OwnCommand(command_id, user_id) ==
    command_id \in 1..Len(commands) /\ commands[command_id].user_id = user_id

handleCommandStatusUpdate(command_id, status, apiKey) ==
    /\ UNCHANGED <<clientVars, now, api_keys, devices, rpc, rdev, rbatch, device_commands, ingestVars>>
    /\ IF apiKey = NoKey
       THEN /\ resp' = Response("report", 400, "Missing required fields")
            /\ UNCHANGED <<commands, command_logs>>
       ELSE IF ~IsSingle(KeyRows(apiKey))
       THEN /\ resp' = Response("report", 401, "Invalid API key")
            /\ UNCHANGED <<commands, command_logs>>
       ELSE IF status \notin validStatuses
       THEN /\ resp' = Response("report", 400, "Invalid status")
            /\ UNCHANGED <<commands, command_logs>>
       ELSE IF ~OwnCommand(command_id, Single(KeyRows(apiKey)).user_id)
       THEN /\ resp' = Response("report", 400, "no rows")
            /\ UNCHANGED <<commands, command_logs>>
       ELSE /\ command_logs < MaxLogs
            /\ commands' = [commands EXCEPT ![command_id] = StatusUpdated(@, status)]
            /\ command_logs' = command_logs + 1
            /\ resp' = [Response("report", 200, "none") EXCEPT !.commands = <<command_id>>]

(***************************************************************************)
(* DELETE: handleCommandCancellation.                                      *)
(***************************************************************************)
Cancelled(row, user) ==
    [row EXCEPT !.status = "cancelled", !.cancelled_at = now, !.cancelled_by = user]

handleCommandCancellation(user, command_id) ==
    /\ UNCHANGED <<clientVars, now, api_keys, devices, rpc, rdev, rbatch, device_commands, ingestVars>>
    /\ IF user = NoUser
       THEN /\ resp' = Response("cancel", 401, "Unauthorized")
            /\ UNCHANGED <<commands, command_logs>>
       ELSE IF ~OwnCommand(command_id, user)
       THEN /\ resp' = Response("cancel", 400, "no rows")
            /\ UNCHANGED <<commands, command_logs>>
       ELSE /\ command_logs < MaxLogs
            /\ commands' = [commands EXCEPT ![command_id] = Cancelled(@, user)]
            /\ command_logs' = command_logs + 1
            /\ resp' = [Response("cancel", 200, "none") EXCEPT !.commands = <<command_id>>]

(***************************************************************************)
(* The command queue under concurrent requests.  The requests are the      *)
(* well-formed ones over the accounts, devices and keys of Init, and one   *)
(* request for each way a handler rejects its input.                       *)
(***************************************************************************)
ValidBody == [command_type |-> "PUMP_DURATION", parameters |-> ("duration" :> Num(1000))]

SendPriorities == {"normal", "high", "asap"}

SendRequests ==
    { [user |-> u, device_id |-> d, body |-> ValidBody, priority |-> pr] :
        u \in Users, d \in DeviceIds, pr \in SendPriorities }
    \cup { [user |-> u, device_id |-> d, body |-> b, priority |-> "normal"] :
             u \in {"u1", NoUser}, d \in {"d1", "d2", NoDevice}, b \in SendBodies }

RetrievalRequests ==
    { [device_id |-> d, apiKey |-> k, limit |-> l, priority |-> f] :
        d \in DeviceIds, k \in {Hashed("k1"), Hashed("k2")}, l \in Limits, f \in PriorityFilters }
    \cup { [device_id |-> "d1", apiKey |-> k, limit |-> DefaultLimit, priority |-> "all"] :
             k \in PresentedKeys \cup {NoKey} }

ReportRequests ==
    { [command_id |-> c, status |-> st, apiKey |-> k] :
        c \in 1..MaxCmds, st \in validStatuses \cap ReportStatuses,
        k \in {Hashed("k1"), Hashed("k2"), Hashed("k3")} }
    \cup { [command_id |-> 1, status |-> st, apiKey |-> Hashed("k1")] : st \in ReportStatuses }
    \cup { [command_id |-> 1, status |-> "executed", apiKey |-> k] : k \in {Plain("k1"), NoKey} }

Callers == Users \cup {NoUser}

Send(requests) ==
    \E r \in requests : handleCommandSend(r.user, r.device_id, r.body, r.priority)

RetrieveSelect(procs, requests) ==
    \E p \in procs, r \in requests :
        RetrievalSelect(p, r.device_id, r.apiKey, r.limit, r.priority)

RetrieveUpdate(procs) == \E p \in procs : RetrievalUpdate(p)

Report(requests) ==
    \E r \in requests : handleCommandStatusUpdate(r.command_id, r.status, r.apiKey)

Cancel(callers) ==
    \E user \in callers, command_id \in 1..MaxCmds :
        handleCommandCancellation(user, command_id)

\* Every request, accepted or rejected, with one retrieval in flight at a time.
Next ==
    \/ Tick
    \/ Send(SendRequests)
    \/ RetrieveSelect({"r1"}, RetrievalRequests)
    \/ RetrieveUpdate({"r1"})
    \/ Report(ReportRequests)
    \/ Cancel(Callers)

Spec == Init /\ [][Next]_vars

\* The requests of the owners and their active keys, with retrievals racing.
OwnerSends ==
    {r \in SendRequests : r.user # NoUser /\ r.body = ValidBody /\ OwnedDevice(r.user, r.device_id)}

KeyRetrievals ==
    {r \in RetrievalRequests :
        /\ IsSingle(ActiveKeyRows(r.apiKey))
        /\ Single(ActiveKeyRows(r.apiKey)).device_id = r.device_id}

KeyReports ==
    {r \in ReportRequests : r.status \in validStatuses /\ r.apiKey \in {Hashed("k1"), Hashed("k2")}}

NextRace ==
    \/ Tick
    \/ Send(OwnerSends)
    \/ RetrieveSelect(Retrievers, KeyRetrievals)
    \/ RetrieveUpdate(Retrievers)
    \/ Report(KeyReports)
    \/ Cancel(Users)

SpecRace == Init /\ [][NextRace]_vars

\* The device's side of the queue over time: the owners enqueue, the device
\* polls and reports.  A retrieval that has selected its batch goes on to the
\* update, and the clock advances; a report is never certain to arrive, since
\* the firmware drops it when the device is offline and does not send it again.
NextLive ==
    \/ Tick
    \/ Send(OwnerSends)
    \/ RetrieveSelect({"r1"}, KeyRetrievals)
    \/ RetrieveUpdate({"r1"})
    \/ Report(KeyReports)

SpecLive ==
    Init /\ [][NextLive]_vars /\ WF_vars(Tick) /\ WF_vars(RetrieveUpdate({"r1"}))

(***************************************************************************)
(* Validation exercised through handleCommandSend: the owner of d1 sends   *)
(* every command type with its smallest complete parameters object, with   *)
(* each required parameter left out in turn, and PUMP_DURATION with        *)
(* durations on, next to and far from the limits of its range, as numbers  *)
(* and as strings.                                                         *)
(***************************************************************************)
Chars2000 == <<"2", "0", "0", "0">>
CharsAbc == <<"a", "b", "c">>
CharsVersion == <<"v", "1", ".", "0", ".", "2">>
CharsMoisture == <<"m", "o", "i", "s", "t", "u", "r", "e">>

\* For each command type an object with exactly its required parameters.
MinimalParameters ==
    [ty \in CommandTypes |->
        CASE ty = "PUMP_DURATION" -> ("duration" :> Num(1000))
          [] ty = "CALIBRATE_SENSOR" ->
               ("sensor_type" :> Str(CharsMoisture) @@ "min_value" :> Num(0)
                   @@ "max_value" :> Num(100))
          [] ty = "UPDATE_FIRMWARE" -> ("version" :> Str(CharsVersion))
          [] OTHER -> NoParams]

\* The object without the property param.
Omit(parameters, param) == [x \in DOMAIN parameters \ {param} |-> parameters[x]]

DurationSamples ==
    { Num(0), Num(500), Num(999), Num(1000), Num(1001), Num(300000), Num(300001),
      Str(Chars2000), Str(CharsAbc), Str(<<>>) }

ValidateBodies ==
    { [command_type |-> ty, parameters |-> MinimalParameters[ty]] : ty \in CommandTypes }
    \cup { [command_type |-> ty, parameters |-> Omit(MinimalParameters[ty], param)] :
               ty \in CommandTypes, param \in {"duration", "sensor_type", "min_value",
                                               "max_value", "version"} }
    \cup { [command_type |-> "PUMP_DURATION", parameters |-> ("duration" :> v)] :
               v \in DurationSamples }
    \cup { [command_type |-> "PUMP_DURATION",
            parameters |-> ("duration" :> v @@ "intensity" :> Num(50))] :
               v \in {Num(999), Num(300000)} }

ValidateRequests ==
    { [user |-> "u1", device_id |-> "d1", body |-> b, priority |-> "normal"] :
        b \in ValidateBodies }

NextValidate == Tick \/ Send(ValidateRequests)

SpecValidate == Init /\ [][NextValidate]_vars

(***************************************************************************)
(* The dashboard's own enqueue: deviceService.sendCommand inserts into     *)
(* device_commands as the signed-in user, under the table's insert policy. *)
(***************************************************************************)
MaxDeviceCmds == 2

\* Policy "Users can insert own device commands": WITH CHECK (EXISTS (SELECT 1
\* FROM devices d WHERE d.id = device_commands.device_id AND d.user_id = auth.uid()))
InsertPolicy(uid, device_id) ==
    \E d \in DOMAIN devices : d = device_id /\ devices[d].user_id = uid

DashboardCommandTypes == {"PUMP_ON", "water"}

sendCommand(user, deviceId, commandType) ==
    /\ UNCHANGED <<clientVars, now, api_keys, devices, commands, command_logs, rpc, rdev, rbatch, ingestVars>>
    /\ IF user = NoUser
       THEN /\ resp' = Response("sendCommand", 401, "User not authenticated")
            /\ UNCHANGED device_commands
       ELSE IF ~InsertPolicy(user, deviceId)
       THEN /\ resp' = Response("sendCommand", 403, "new row violates row-level security policy")
            /\ UNCHANGED device_commands
       ELSE /\ Len(device_commands) < MaxDeviceCmds
            /\ device_commands' =
                   Append(device_commands,
                          [device_id |-> deviceId, command_type |-> commandType,
                           status |-> "pending", created_at |-> now])
            /\ resp' = [Response("sendCommand", 200, "none") EXCEPT
                           !.commands = <<Len(device_commands) + 1>>]

SendCommand ==
    \E user \in Callers, deviceId \in DeviceIds, commandType \in DashboardCommandTypes :
        sendCommand(user, deviceId, commandType)

\* The two ways a caller enqueues a command.
NextEnqueue == Tick \/ Send(SendRequests) \/ SendCommand

SpecEnqueue == Init /\ [][NextEnqueue]_vars

(***************************************************************************)
(* Telemetry ingest.                                                       *)
(***************************************************************************)
MaxReadings == 2

SqlNull == "NULL"

\* Table user_profiles: email is UNIQUE NOT NULL.
user_profiles == [u \in Users |-> [email |-> IF u = "u1" THEN "u1@farm" ELSE "u2@farm"]]

\* crypt(password, salt): with a stored hash as the salt it gives that hash back
\* exactly when the password is the plaintext the hash was made from.
Crypt(password, salt) ==
    IF salt.kind = "hash" /\ password = Plain(salt.of) THEN salt
    ELSE [kind |-> "mismatch", of |-> password.of]

\* a != b in SQL: NULL when either side is NULL, and IF takes NULL as false.
SqlNotEqualHolds(a, b) == a # SqlNull /\ b # SqlNull /\ a # b

ReadingRow(device_id, zone_id, sensor_type, value) ==
    [device_id |-> device_id, zone_id |-> zone_id, sensor_type |-> sensor_type,
     value |-> value, reading_timestamp |-> now]

AlertRow(reading, alert_type, severity) ==
    [user_id |-> zones[reading.zone_id].user_id, zone_id |-> reading.zone_id,
     device_id |-> reading.device_id, alert_type |-> alert_type, severity |-> severity,
     is_read |-> FALSE]

\* The trigger function with inclusive comparisons (<= 20, >= 35, <= 30).
check_and_create_alertsInclusive(reading) ==
    (IF reading.sensor_type = "moisture" /\ reading.value <= 20
        THEN <<AlertRow(reading, "low_moisture", "critical")>> ELSE <<>>)
    \o (IF reading.sensor_type = "temperature" /\ reading.value >= 35
        THEN <<AlertRow(reading, "high_temperature", "high")>> ELSE <<>>)
    \o (IF reading.sensor_type = "humidity" /\ reading.value <= 30
        THEN <<AlertRow(reading, "low_humidity", "medium")>> ELSE <<>>)

\* The trigger function skipping a row that an existing alert already equals.
check_and_create_alertsDedup(reading) ==
    LET rows == (IF reading.sensor_type = "moisture" /\ reading.value < 20
                    THEN <<AlertRow(reading, "low_moisture", "critical")>> ELSE <<>>)
                \o (IF reading.sensor_type = "temperature" /\ reading.value > 35
                    THEN <<AlertRow(reading, "high_temperature", "high")>> ELSE <<>>)
                \o (IF reading.sensor_type = "humidity" /\ reading.value < 30
                    THEN <<AlertRow(reading, "low_humidity", "medium")>> ELSE <<>>)
    IN  IF rows # <<>> /\ \E i \in 1..Len(alerts) : alerts[i] = rows[1] THEN <<>> ELSE rows

\* Trigger check_alerts_trigger, AFTER INSERT ON sensor_data: the alert rows it inserts.
check_and_create_alerts(reading) ==
    (IF reading.sensor_type = "moisture" /\ reading.value < 20
        THEN <<AlertRow(reading, "low_moisture", "critical")>> ELSE <<>>)
    \o (IF reading.sensor_type = "temperature" /\ reading.value > 35
        THEN <<AlertRow(reading, "high_temperature", "high")>> ELSE <<>>)
    \o (IF reading.sensor_type = "humidity" /\ reading.value < 30
        THEN <<AlertRow(reading, "low_humidity", "medium")>> ELSE <<>>)

\* The SELECT ... INTO of insert_sensor_data that finds the key owner's email.
ApiKeyOwnerEmail(p_api_key) ==
    LET rows == {k \in api_keys : k.key_hash = Crypt(p_api_key, k.key_hash) /\ k.is_active}
    IN  IF rows = {} THEN {SqlNull} ELSE {user_profiles[k.user_id].email : k \in rows}

DeviceOwnerEmail(p_device_id) ==
    IF p_device_id \in DOMAIN devices THEN user_profiles[devices[p_device_id].user_id].email
    ELSE SqlNull

\* INSERT INTO realtime_cache ... ON CONFLICT (zone_id, device_id) DO UPDATE
CacheUpsert(old, sensor_type, value) ==
    [present |-> TRUE,
     moisture_value |-> IF sensor_type = "moisture" THEN value ELSE old.moisture_value,
     temperature_value |-> IF sensor_type = "temperature" THEN value ELSE old.temperature_value,
     humidity_value |-> IF sensor_type = "humidity" THEN value ELSE old.humidity_value,
     light_value |-> IF sensor_type = "light" THEN value ELSE old.light_value,
     last_updated |-> now,
     data_freshness |-> 0]

\* .from('realtime_cache').upsert({...}, {onConflict: 'zone_id,device_id'})
DirectCacheUpsert(old, sensor_type, value) ==
    [present |-> TRUE,
     moisture_value |-> IF sensor_type = "moisture" THEN value ELSE NoValue,
     temperature_value |-> IF sensor_type = "temperature" THEN value ELSE NoValue,
     humidity_value |-> IF sensor_type = "humidity" THEN value ELSE NoValue,
     light_value |-> IF sensor_type = "light" THEN value ELSE NoValue,
     last_updated |-> now,
     data_freshness |-> 0]

\* Function insert_sensor_data, one transaction, called by the esp32-data handler.
insert_sensor_data(p_device_id, p_zone_id, p_sensor_type, p_value, p_api_key) ==
    /\ UNCHANGED <<clientVars, now, api_keys, queueVars, ipc, ireq>>
    /\ IF p_api_key = NoKey
       THEN /\ resp' = Response("ingest_rpc", 400, "Missing required fields")
            /\ UNCHANGED <<devices, sensor_data, realtime_cache, alerts>>
       ELSE \E v_api_key_owner_email \in ApiKeyOwnerEmail(p_api_key) :
            IF SqlNotEqualHolds(v_api_key_owner_email, DeviceOwnerEmail(p_device_id))
            THEN /\ resp' = Response("ingest_rpc", 400, "Access denied")
                 /\ UNCHANGED <<devices, sensor_data, realtime_cache, alerts>>
            ELSE LET reading == ReadingRow(p_device_id, p_zone_id, p_sensor_type, p_value) IN
                 /\ Len(sensor_data) < MaxReadings
                 /\ sensor_data' = Append(sensor_data, reading)
                 /\ alerts' = alerts \o check_and_create_alerts(reading)
                 /\ realtime_cache' =
                        [realtime_cache EXCEPT ![<<p_zone_id, p_device_id>>] =
                            CacheUpsert(@, p_sensor_type, p_value)]
                 /\ devices' = [devices EXCEPT ![p_device_id].last_seen = now]
                 /\ resp' = Response("ingest_rpc", 200, "none")

\* The earlier esp32-data handler: it checks the key itself and writes the three
\* tables in three round trips.
DirectIngestInsert(p, device_id, zone_id, sensor_type, value, apiKey) ==
    /\ ipc[p] = "idle"
    /\ UNCHANGED <<clientVars, now, api_keys, devices, queueVars, realtime_cache>>
    /\ IF apiKey = NoKey
       THEN /\ resp' = Response("ingest", 400, "Missing required fields")
            /\ UNCHANGED <<sensor_data, alerts, ipc, ireq>>
       ELSE IF ~IsSingle(ActiveKeyRows(apiKey))
       THEN /\ resp' = Response("ingest", 401, "Invalid or inactive API key")
            /\ UNCHANGED <<sensor_data, alerts, ipc, ireq>>
       ELSE IF Single(ActiveKeyRows(apiKey)).device_id # device_id
       THEN /\ resp' = Response("ingest", 403, "API key not authorized for this device")
            /\ UNCHANGED <<sensor_data, alerts, ipc, ireq>>
       ELSE IF zones[zone_id].user_id # Single(ActiveKeyRows(apiKey)).user_id
       THEN /\ resp' = Response("ingest", 404, "Zone not found or access denied")
            /\ UNCHANGED <<sensor_data, alerts, ipc, ireq>>
       ELSE LET reading == ReadingRow(device_id, zone_id, sensor_type, value) IN
            /\ Len(sensor_data) < MaxReadings
            /\ sensor_data' = Append(sensor_data, reading)
            /\ alerts' = alerts \o check_and_create_alerts(reading)
            /\ ireq' = [ireq EXCEPT ![p] = [device_id |-> device_id, zone_id |-> zone_id,
                                            sensor_type |-> sensor_type, value |-> value]]
            /\ ipc' = [ipc EXCEPT ![p] = "inserted"]
            /\ resp' = NoResp

DirectIngestCache(p) ==
    /\ ipc[p] = "inserted"
    /\ realtime_cache' =
           [realtime_cache EXCEPT ![<<ireq[p].zone_id, ireq[p].device_id>>] =
               DirectCacheUpsert(@, ireq[p].sensor_type, ireq[p].value)]
    /\ ipc' = [ipc EXCEPT ![p] = "cached"]
    /\ resp' = NoResp
    /\ UNCHANGED <<clientVars, now, api_keys, devices, queueVars, sensor_data, alerts, ireq>>

IrrigationNeeded(sensor_type, value, zone) ==
    /\ sensor_type = "moisture"
    /\ zone.moisture_threshold # NoValue
    /\ zone.moisture_threshold # 0
    /\ value < zone.moisture_threshold

DirectIngestDevice(p) ==
    /\ ipc[p] = "cached"
    /\ devices' = [devices EXCEPT ![ireq[p].device_id] =
                      [@ EXCEPT !.last_seen = now, !.is_online = TRUE,
                                !.connection_status = "connected"]]
    /\ resp' = [Response("ingest", 200, "none") EXCEPT
                   !.irrigation_needed =
                       IrrigationNeeded(ireq[p].sensor_type, ireq[p].value, zones[ireq[p].zone_id])]
    /\ ipc' = [ipc EXCEPT ![p] = "idle"]
    /\ ireq' = [ireq EXCEPT ![p] = NoIngest]
    /\ UNCHANGED <<clientVars, now, api_keys, queueVars, sensor_data, realtime_cache, alerts>>

SensorSamples ==
    { <<"moisture", 15>>, <<"moisture", 40>>, <<"temperature", 22>>, <<"temperature", 36>> }

IngestKeys == {Hashed("k1"), Hashed("k3"), Plain("k1"), Plain("k2"), Plain("k3"), NoKey}

\* Readings at and next to the thresholds of the alert rules, of a sensor type
\* without a rule and of a sensor type the schema does not name.
ThresholdSamples ==
    { <<"moisture", 19>>, <<"moisture", 20>>, <<"temperature", 35>>, <<"humidity", 29>>,
      <<"humidity", 30>>, <<"light", 5>>, <<"ph", 7>> }

IngestRequests ==
    { [device_id |-> d, zone_id |-> z, sensor_type |-> sv[1], value |-> sv[2], apiKey |-> k] :
        d \in DeviceIds, z \in ZoneIds, sv \in SensorSamples, k \in IngestKeys }

IngestRpc ==
    \E r \in IngestRequests :
        insert_sensor_data(r.device_id, r.zone_id, r.sensor_type, r.value, r.apiKey)

IngestDirect ==
    \E p \in Ingesters, r \in IngestRequests :
        DirectIngestInsert(p, r.device_id, r.zone_id, r.sensor_type, r.value, r.apiKey)

IngestCache == \E p \in Ingesters : DirectIngestCache(p)

IngestDevice == \E p \in Ingesters : DirectIngestDevice(p)

NextIngest == Tick \/ IngestRpc \/ IngestDirect \/ IngestCache \/ IngestDevice

SpecIngest == Init /\ [][NextIngest]_vars

\* The readings of one device in its own zone, at every sample.
AlertRequests ==
    { [device_id |-> "d1", zone_id |-> "z1", sensor_type |-> sv[1], value |-> sv[2],
       apiKey |-> k] : sv \in SensorSamples \cup ThresholdSamples,
                       k \in {Plain("k1"), Hashed("k1")} }

AlertRpc ==
    \E r \in AlertRequests :
        insert_sensor_data(r.device_id, r.zone_id, r.sensor_type, r.value, r.apiKey)

AlertDirect ==
    \E r \in AlertRequests :
        DirectIngestInsert("i1", r.device_id, r.zone_id, r.sensor_type, r.value, r.apiKey)

NextAlerts ==
    Tick \/ AlertRpc \/ AlertDirect \/ DirectIngestCache("i1") \/ DirectIngestDevice("i1")

SpecAlerts == Init /\ [][NextAlerts]_vars

(***************************************************************************)
(* Ingest when a database call returns an error.                           *)
(***************************************************************************)
\* insert_sensor_data raises: the transaction rolls back and the handler
\* answers 400 with the error's message.
insert_sensor_data_error(p_api_key) ==
    /\ p_api_key # NoKey
    /\ resp' = Response("ingest_rpc", 400, "database error")
    /\ UNCHANGED <<clientVars, now, api_keys, devices, queueVars, ingestVars>>

\* The insert into sensor_data returns an error: the handler answers 400.
DirectIngestInsertError(p, device_id, zone_id, apiKey) ==
    /\ ipc[p] = "idle"
    /\ apiKey # NoKey
    /\ IsSingle(ActiveKeyRows(apiKey))
    /\ Single(ActiveKeyRows(apiKey)).device_id = device_id
    /\ zones[zone_id].user_id = Single(ActiveKeyRows(apiKey)).user_id
    /\ resp' = Response("ingest", 400, "database error")
    /\ UNCHANGED <<clientVars, now, api_keys, devices, queueVars, ingestVars>>

\* The upsert into realtime_cache returns an error: the handler logs a warning
\* and goes on.
DirectIngestCacheError(p) ==
    /\ ipc[p] = "inserted"
    /\ ipc' = [ipc EXCEPT ![p] = "cached"]
    /\ resp' = NoResp
    /\ UNCHANGED <<clientVars, now, api_keys, devices, queueVars, sensor_data, realtime_cache,
                   alerts, ireq>>

\* The update of devices returns an error: the handler logs a warning and
\* answers as it does after a successful update.
DirectIngestDeviceError(p) ==
    /\ ipc[p] = "cached"
    /\ resp' = [Response("ingest", 200, "none") EXCEPT
                   !.irrigation_needed =
                       IrrigationNeeded(ireq[p].sensor_type, ireq[p].value, zones[ireq[p].zone_id])]
    /\ ipc' = [ipc EXCEPT ![p] = "idle"]
    /\ ireq' = [ireq EXCEPT ![p] = NoIngest]
    /\ UNCHANGED <<clientVars, now, api_keys, devices, queueVars, sensor_data, realtime_cache, alerts>>

\* Readings of one device in its own zone, under the device's key in both forms.
FaultRequests ==
    { [device_id |-> "d1", zone_id |-> "z1", sensor_type |-> sv[1], value |-> sv[2],
       apiKey |-> k] : sv \in SensorSamples, k \in {Plain("k1"), Hashed("k1")} }

FaultRpc ==
    \E r \in FaultRequests :
        insert_sensor_data(r.device_id, r.zone_id, r.sensor_type, r.value, r.apiKey)

FaultRpcError == \E r \in FaultRequests : insert_sensor_data_error(r.apiKey)

FaultDirect ==
    \E r \in FaultRequests :
        DirectIngestInsert("i1", r.device_id, r.zone_id, r.sensor_type, r.value, r.apiKey)

FaultDirectError ==
    \E r \in FaultRequests : DirectIngestInsertError("i1", r.device_id, r.zone_id, r.apiKey)

NextFaults ==
    \/ Tick
    \/ FaultRpc
    \/ FaultRpcError
    \/ FaultDirect
    \/ FaultDirectError
    \/ DirectIngestCache("i1")
    \/ DirectIngestCacheError("i1")
    \/ DirectIngestDevice("i1")
    \/ DirectIngestDeviceError("i1")

SpecFaults == Init /\ [][NextFaults]_vars

(***************************************************************************)
(* Data freshness and the view zone_status.  In this part `now` counts     *)
(* seconds.                                                                *)
(***************************************************************************)
\* The instants at which the store is looked at, in seconds.
PresenceInstants == {0, 1, 59, 60, 61, 299, 300, 899, 900, 901}

\* Time passes up to a later instant.
Elapse ==
    /\ \E t \in PresenceInstants : now < t /\ now' = t
    /\ resp' = NoResp
    /\ UNCHANGED <<clientVars, api_keys, devices, queueVars, ingestVars>>

\* Function update_data_freshness: the stored age of every cache row.
update_data_freshness ==
    /\ realtime_cache' =
           [zd \in DOMAIN realtime_cache |->
               IF realtime_cache[zd].present /\ realtime_cache[zd].last_updated < now
               THEN [realtime_cache[zd] EXCEPT
                        !.data_freshness = now - realtime_cache[zd].last_updated]
               ELSE realtime_cache[zd]]
    /\ resp' = NoResp
    /\ UNCHANGED <<clientVars, now, api_keys, devices, queueVars, sensor_data, alerts, ipc, ireq>>

\* Column data_status of the view zone_status.  A zone without a cache row
\* has a NULL data_freshness, which no WHEN accepts.
data_status(rc) ==
    IF ~rc.present THEN "offline"
    ELSE IF rc.data_freshness < 60 THEN "live"
    ELSE IF rc.data_freshness < 300 THEN "recent"
    ELSE IF rc.data_freshness < 900 THEN "stale"
    ELSE "offline"

\* SELECT data_status FROM zone_status for one zone and device.
zone_status(zone_id, device_id) ==
    /\ resp' = [Response("zone_status", 200, "none") EXCEPT
                   !.details = <<data_status(realtime_cache[<<zone_id, device_id>>])>>]
    /\ UNCHANGED <<clientVars, now, api_keys, devices, queueVars, ingestVars>>

PresenceIngest == insert_sensor_data("d1", "z1", "moisture", 40, Plain("k1"))

PresenceRead == \E zone_id \in ZoneIds, device_id \in DeviceIds : zone_status(zone_id, device_id)

NextPresence == Elapse \/ PresenceIngest \/ update_data_freshness \/ PresenceRead

SpecPresence == Init /\ [][NextPresence]_vars

(***************************************************************************)
(* Device management: registration (POST) and heartbeat (PUT) of the       *)
(* device-management function, and the function update_device_status.      *)
(***************************************************************************)
\* A property the request body does not carry.
Undefined == "undefined"

\* PUT device-management: { device_id, status = 'connected', is_online = true, apiKey }.
\* is_online stands for the body's value after its default.
handleHeartbeat(device_id, status, is_online, apiKey) ==
    /\ UNCHANGED <<clientVars, now, api_keys, queueVars, ingestVars>>
    /\ IF device_id = NoDevice \/ apiKey = NoKey
       THEN /\ resp' = Response("heartbeat", 400, "Missing required fields")
            /\ UNCHANGED devices
       ELSE IF ~IsSingle(KeyRows(apiKey))
       THEN /\ resp' = Response("heartbeat", 401, "Invalid API key")
            /\ UNCHANGED devices
       ELSE IF ~OwnedDevice(Single(KeyRows(apiKey)).user_id, device_id)
       THEN /\ resp' = Response("heartbeat", 400, "no rows")
            /\ UNCHANGED devices
       ELSE /\ devices' = [devices EXCEPT ![device_id] =
                              [@ EXCEPT !.is_online = is_online,
                                        !.connection_status =
                                            IF status = Undefined THEN "connected" ELSE status,
                                        !.last_seen = now,
                                        !.last_heartbeat = now]]
            /\ resp' = Response("heartbeat", 200, "none")

\* POST device-management: update the caller's device or insert a new one.
handleRegistration(device_id, apiKey) ==
    /\ UNCHANGED <<clientVars, now, api_keys, queueVars, ingestVars>>
    /\ IF device_id = NoDevice \/ apiKey = NoKey
       THEN /\ resp' = Response("register", 400, "Missing required fields")
            /\ UNCHANGED devices
       ELSE IF ~IsSingle(KeyRows(apiKey))
       THEN /\ resp' = Response("register", 401, "Invalid API key")
            /\ UNCHANGED devices
       ELSE LET user_id == Single(KeyRows(apiKey)).user_id
                row == [user_id |-> user_id, last_seen |-> now, last_heartbeat |-> now,
                        is_online |-> TRUE, connection_status |-> "connected"]
            IN  IF OwnedDevice(user_id, device_id)
                THEN /\ devices' = [devices EXCEPT ![device_id] = row]
                     /\ resp' = Response("register", 200, "none")
                ELSE IF device_id \in DOMAIN devices
                THEN /\ resp' = Response("register", 400, "duplicate key")
                     /\ UNCHANGED devices
                ELSE /\ devices' = (device_id :> row) @@ devices
                     /\ resp' = Response("register", 201, "none")

\* Function update_device_status(p_device_id, p_is_online, p_connection_status).
update_device_status(p_device_id, p_is_online, p_connection_status) ==
    /\ p_device_id \in DOMAIN devices
    /\ devices' = [devices EXCEPT ![p_device_id] =
                      [@ EXCEPT !.is_online = p_is_online,
                                !.last_seen = now,
                                !.last_heartbeat = now,
                                !.connection_status =
                                    IF p_connection_status # SqlNull THEN p_connection_status
                                    ELSE IF p_is_online THEN "connected" ELSE "disconnected"]]
    /\ resp' = Response("update_device_status", 200, "none")
    /\ UNCHANGED <<clientVars, now, api_keys, queueVars, ingestVars>>

\* The body sendHeartbeat of the firmware sends: status "online", no is_online.
FirmwareHeartbeat(device_id, apiKey) ==
    [device_id |-> device_id, status |-> "online", is_online |-> TRUE, apiKey |-> apiKey]

HeartbeatRequests ==
    { FirmwareHeartbeat(d, k) : d \in DeviceIds, k \in {Hashed("k1"), Hashed("k2")} }
    \cup { [device_id |-> d, status |-> st, is_online |-> on, apiKey |-> Hashed("k1")] :
               d \in {"d1", NoDevice}, st \in {Undefined, "error"}, on \in BOOLEAN }
    \cup { [device_id |-> "d1", status |-> Undefined, is_online |-> TRUE, apiKey |-> k] :
               k \in {Hashed("k3"), Plain("k1"), NoKey} }

Heartbeat ==
    \E r \in HeartbeatRequests : handleHeartbeat(r.device_id, r.status, r.is_online, r.apiKey)

Register ==
    \E device_id \in DeviceIds \cup {"d3", NoDevice},
       apiKey \in {Hashed("k1"), Plain("k1"), NoKey} :
        handleRegistration(device_id, apiKey)

UpdateStatus ==
    \E p_device_id \in DeviceIds, p_is_online \in BOOLEAN,
       p_connection_status \in {SqlNull, "error"} :
        update_device_status(p_device_id, p_is_online, p_connection_status)

NextDevices ==
    \/ Tick
    \/ Register
    \/ Heartbeat
    \/ UpdateStatus
    \/ insert_sensor_data("d1", "z1", "moisture", 15, Plain("k1"))
    \/ DirectIngestInsert("i1", "d1", "z1", "moisture", 15, Hashed("k1"))
    \/ DirectIngestCache("i1")
    \/ DirectIngestDevice("i1")

SpecDevices == Init /\ [][NextDevices]_vars

(***************************************************************************)
(* Key generation of the dashboard: deviceService.createDevice and         *)
(* deviceService.generateApiKey, each round trip to the database a step,   *)
(* and the function create_api_key.                                        *)
(***************************************************************************)
\* The plaintext keys gen_random_bytes can still produce.
FreshKeys == {k \in {"k4", "k5"} : \A row \in api_keys : row.key_hash # Hashed(k)}

\* createDevice up to its insert; the automatic generateApiKey follows.
createDevice(g, user, name) ==
    /\ gpc[g] = "idle"
    /\ UNCHANGED <<now, api_keys, queueVars, ingestVars, firmwareVars>>
    /\ IF name \in DOMAIN devices
       THEN /\ resp' = Response("createDevice", 400, "Device with this name already exists")
            /\ UNCHANGED <<devices, keygenVars>>
       ELSE /\ devices' = (name :> DeviceRow(user)) @@ devices
            /\ gpc' = [gpc EXCEPT ![g] = "created"]
            /\ gdev' = [gdev EXCEPT ![g] = name]
            /\ resp' = NoResp

\* generateApiKey, first round trip: the select of the device's active keys.
generateApiKeySelect(g, user, deviceId) ==
    /\ \/ gpc[g] = "idle"
       \/ gpc[g] = "created" /\ deviceId = gdev[g]
    /\ LET existingKeys == {k \in api_keys : k.device_id = deviceId /\ k.user_id = user
                                                /\ k.is_active}
       IN  IF existingKeys # {}
           THEN /\ gpc' = [gpc EXCEPT ![g] = "idle"]
                /\ gdev' = [gdev EXCEPT ![g] = NoDevice]
                /\ resp' = Response("generateApiKey", 200, "Device already has an API key")
           ELSE /\ gpc' = [gpc EXCEPT ![g] = "checked"]
                /\ gdev' = [gdev EXCEPT ![g] = deviceId]
                /\ resp' = NoResp
    /\ UNCHANGED <<now, api_keys, devices, queueVars, ingestVars, firmwareVars>>

\* Function create_api_key(p_device_id, p_name, p_user_email).
create_api_key(user, p_device_id, key) ==
    IF p_device_id \in DOMAIN devices /\ devices[p_device_id].user_id # user
    THEN /\ resp' = Response("generateApiKey", 500, "Access denied")
         /\ UNCHANGED api_keys
    ELSE /\ api_keys' = api_keys \cup {KeyRow(key, user, p_device_id, TRUE)}
         /\ resp' = Response("generateApiKey", 200, "none")

\* generateApiKey, second round trip: the rpc create_api_key.
generateApiKeyRpc(g, user) ==
    /\ gpc[g] = "checked"
    /\ \E key \in FreshKeys : create_api_key(user, gdev[g], key)
    /\ gpc' = [gpc EXCEPT ![g] = "idle"]
    /\ gdev' = [gdev EXCEPT ![g] = NoDevice]
    /\ UNCHANGED <<now, devices, queueVars, ingestVars, firmwareVars>>

NextKeys ==
    \/ Tick
    \/ \E g \in Generators : createDevice(g, "u1", "d3")
    \/ \E g \in Generators, deviceId \in DeviceIds \cup {"d3"} :
           deviceId \in DOMAIN devices /\ generateApiKeySelect(g, "u1", deviceId)
    \/ \E g \in Generators : generateApiKeyRpc(g, "u1")

SpecKeys == Init /\ [][NextKeys]_vars

(***************************************************************************)
(* The firmware's data path: setup(), loop(), sendSensorData(),            *)
(* bufferSensorReading() and sendBufferedData().  A reading is the pair    *)
(* <<n, sensorType>> of the n-th readAllSensors() of the loop.  The server *)
(* side of each POST is the ingest modelled above; here a POST either gets *)
(* an HTTP answer (httpResponseCode > 0) or does not.                      *)
(***************************************************************************)
maxBufferSize == 10
maxFailedTransmissions == 3

\* The number of send intervals a behaviour covers.
MaxIntervals == 5

SensorTypes == <<"moisture", "temperature", "humidity", "light">>

Range(f) == {f[i] : i \in DOMAIN f}

\* The sets of sensor types whose POST gets an answer during one call.
Answered == {Range(SensorTypes), {"moisture"}, {}}

bufferSensorReading(buffer, reading) ==
    IF Len(buffer) < maxBufferSize
    THEN Append(buffer, reading)
    ELSE Append(Tail(buffer), reading)

RECURSIVE bufferAll(_, _, _)
bufferAll(buffer, n, i) ==
    IF i > Len(SensorTypes) THEN buffer
    ELSE bufferAll(bufferSensorReading(buffer, <<n, SensorTypes[i]>>), n, i + 1)

\* The readings for which sendSensorReading returns true.
sendSensorReading(online, readings, answered) ==
    IF online THEN {r \in readings : r[2] \in answered} ELSE {}

\* sendSensorData() for the n-th reading: the buffer, counter and deliveries after it.
sendSensorData(online, buffer, failed, n, answered) ==
    LET sent == sendSensorReading(online, {<<n, SensorTypes[i]>> : i \in DOMAIN SensorTypes},
                                  answered)
        allSuccess == Cardinality(sent) = Len(SensorTypes)
    IN  IF ~online
        THEN [buffer |-> bufferAll(buffer, n, 1), failed |-> failed, sent |-> {}]
        ELSE IF allSuccess
        THEN [buffer |-> buffer, failed |-> 0, sent |-> sent]
        ELSE [buffer |-> IF failed + 1 >= maxFailedTransmissions
                         THEN bufferAll(buffer, n, 1) ELSE buffer,
              failed |-> failed + 1, sent |-> sent]

\* sendBufferedData(): posts every buffered reading, then clears the buffer.
sendBufferedData(online, buffer, answered) ==
    [buffer |-> <<>>, sent |-> sendSensorReading(online, Range(buffer), answered)]

\* setup(): initializeWiFi sets isOnline from the outcome of the connection.
setup(wifi) ==
    /\ ~booted
    /\ booted' = TRUE
    /\ isOnline' = wifi
    /\ resp' = NoResp
    /\ UNCHANGED <<now, api_keys, devices, queueVars, ingestVars, keygenVars,
                   failedTransmissions, dataBuffer, lastReading, delivered>>

\* One pass of loop(): wifi is WiFi.status() == WL_CONNECTED, elapsed is
\* currentTime - lastSendTime >= sendInterval.
loop(wifi, elapsed, answeredBuffered, answeredSend) ==
    /\ booted
    /\ elapsed => lastReading < MaxIntervals
    /\ resp' = NoResp
    /\ UNCHANGED <<now, api_keys, devices, queueVars, ingestVars, keygenVars, booted>>
    /\ IF ~wifi
       THEN /\ isOnline' = FALSE
            /\ UNCHANGED <<failedTransmissions, dataBuffer, lastReading, delivered>>
       ELSE LET reconnected == ~isOnline
                flush == IF reconnected /\ Len(dataBuffer) > 0
                         THEN sendBufferedData(TRUE, dataBuffer, answeredBuffered)
                         ELSE [buffer |-> dataBuffer, sent |-> {}]
                failed == IF reconnected THEN 0 ELSE failedTransmissions
                send == IF elapsed
                        THEN sendSensorData(TRUE, flush.buffer, failed, lastReading + 1,
                                            answeredSend)
                        ELSE [buffer |-> flush.buffer, failed |-> failed, sent |-> {}]
            IN  /\ isOnline' = TRUE
                /\ failedTransmissions' = send.failed
                /\ dataBuffer' = send.buffer
                /\ lastReading' = IF elapsed THEN lastReading + 1 ELSE lastReading
                /\ delivered' = delivered \cup flush.sent \cup send.sent

NextFirmware ==
    \/ \E wifi \in BOOLEAN : setup(wifi)
    \/ \E wifi \in BOOLEAN, elapsed \in BOOLEAN, answeredBuffered \in Answered,
          answeredSend \in Answered :
           loop(wifi, elapsed, answeredBuffered, answeredSend)

SpecFirmware == Init /\ [][NextFirmware]_vars

(***************************************************************************)
(* Properties of the command queue.                                        *)
(***************************************************************************)

\* C1: no command is handed to two retrievals that race on the same pending
\* queue: the batches of two retrievals in flight together are disjoint.
C1_RacingBatchesDisjoint ==
    \A p, q \in Retrievers :
        (p # q /\ rpc[p] = "selected" /\ rpc[q] = "selected")
            => SeqRange(rbatch[p]) \cap SeqRange(rbatch[q]) = {}

\* The status changes the state machine permits.
AllowedTransitions ==
    { <<"pending", "in_progress">>, <<"pending", "cancelled">> }
    \cup { <<"in_progress", t>> : t \in TerminalStatuses }

\* C2: command status is monotonic: every status change of a command is
\* pending -> in_progress, pending -> cancelled or in_progress -> terminal, so
\* a terminal status is never left.
C2_StatusMonotonic ==
    [][\A i \in 1..Len(commands) :
          commands'[i].status # commands[i].status
              => <<commands[i].status, commands'[i].status>> \in AllowedTransitions]_vars

\* C3: a report on a command whose status is terminal is refused and leaves
\* the command row as it was.
C3_ReportOnTerminalRefused ==
    [][\A r \in ReportRequests :
          ( /\ resp'.op = "report"
            /\ resp'.commands \in {<<>>, <<r.command_id>>}
            /\ r.command_id \in 1..Len(commands)
            /\ commands[r.command_id].status \in TerminalStatuses
            /\ handleCommandStatusUpdate(r.command_id, r.status, r.apiKey) )
              => (resp'.status = 400 /\ commands' = commands)]_vars

\* C4: a cancel succeeds only on a pending command, which becomes cancelled
\* with cancelled_at and cancelled_by stamped; on a command in any other
\* status it is refused and changes nothing.
C4_CancelOnlyPending ==
    [][\A user \in Users, id \in 1..MaxCmds :
          ( /\ resp'.op = "cancel"
            /\ id \in 1..Len(commands)
            /\ handleCommandCancellation(user, id) )
              => IF commands[id].status = "pending"
                 THEN resp'.status = 200
                        => /\ commands'[id].status = "cancelled"
                           /\ commands'[id].cancelled_at = now
                           /\ commands'[id].cancelled_by = user
                 ELSE resp'.status = 400 /\ commands' = commands]_vars

\* The ordinal of a priority: low < normal < high < urgent.
PriorityRank(p) ==
    CASE p = "low" -> 1 [] p = "normal" -> 2 [] p = "high" -> 3 [] p = "urgent" -> 4

\* Row a is handed out no later than row b: higher rank first, then older first.
RankedNoLater(a, b) ==
    \/ PriorityRank(a.priority) > PriorityRank(b.priority)
    \/ PriorityRank(a.priority) = PriorityRank(b.priority) /\ a.created_at <= b.created_at

\* C5: a retrieval's batch is ordered by priority rank descending, then by
\* creation time ascending, and is the first `limit` commands of that order
\* among the pending commands of the device.
C5_BatchInRankOrder ==
    [][\A p \in Retrievers, r \in RetrievalRequests :
          ( /\ rpc[p] = "idle"
            /\ rpc'[p] = "selected"
            /\ RetrievalSelect(p, r.device_id, r.apiKey, r.limit, r.priority) )
              => LET batch == rbatch'[p]
                     user_id == Single(ActiveKeyRows(r.apiKey)).user_id
                     rest == PendingIds(r.device_id, user_id, r.priority) \ SeqRange(batch)
                 IN  /\ \A i, j \in 1..Len(batch) :
                            i < j => RankedNoLater(commands[batch[i]], commands[batch[j]])
                     /\ \A i \in 1..Len(batch), o \in rest :
                            RankedNoLater(commands[batch[i]], commands[o])]_vars

\* C6: a successful retrieval selects at most `limit` commands, each of the
\* requested device and pending when selected; its update leaves every
\* selected command in_progress with retrieved_at stamped, changes no other
\* command, and the response carries exactly the selected batch.
C6_RetrieveMarksExactlyTheBatch ==
    [][ /\ \A p \in Retrievers, r \in RetrievalRequests :
             ( /\ rpc[p] = "idle"
               /\ rpc'[p] = "selected"
               /\ RetrievalSelect(p, r.device_id, r.apiKey, r.limit, r.priority) )
                 => /\ Len(rbatch'[p]) <= r.limit
                    /\ \A i \in 1..Len(rbatch'[p]) :
                           /\ rbatch'[p][i] \in 1..Len(commands)
                           /\ commands[rbatch'[p][i]].device_id = r.device_id
                           /\ commands[rbatch'[p][i]].status = "pending"
        /\ \A p \in Retrievers :
             (rpc[p] = "selected" /\ RetrievalUpdate(p))
                 => /\ resp'.status = 200
                    /\ resp'.commands = rbatch[p]
                    /\ Len(commands') = Len(commands)
                    /\ \A i \in 1..Len(commands) :
                           IF i \in SeqRange(rbatch[p])
                           THEN /\ commands'[i].status = "in_progress"
                                /\ commands'[i].retrieved_at = now
                                /\ commands'[i].retrieved_at # NoTime
                           ELSE commands'[i] = commands[i] ]_vars

\* C6 happens: a retrieval answered with a batch cut short by its limit, so a
\* pending command of the same device stays outside the batch.
C6_Witness ==
    /\ resp.op = "retrieve"
    /\ resp.status = 200
    /\ resp.commands # <<>>
    /\ \E i \in 1..Len(commands) :
          /\ i \notin SeqRange(resp.commands)
          /\ commands[i].status = "pending"
          /\ commands[i].device_id = commands[resp.commands[1]].device_id

\* The stored keys a presented apiKey names, by state.
KeysNamed(apiKey, active) == {k \in api_keys : k.key_hash = apiKey /\ k.is_active = active}

\* C7: a retrieval presenting a key that is unknown or inactive is answered
\* 401, one presenting an active key of another device 403; either way it
\* selects nothing, returns no command and leaves every command as it was.
C7_BadCredentialRetrievesNothing ==
    [][\A p \in Retrievers, r \in RetrievalRequests :
          ( /\ rpc[p] = "idle"
            /\ (resp'.op = "retrieve" \/ rpc'[p] # "idle")
            /\ r.apiKey # NoKey
            /\ r.device_id # NoDevice
            /\ \A k \in KeysNamed(r.apiKey, TRUE) : k.device_id # r.device_id
            /\ RetrievalSelect(p, r.device_id, r.apiKey, r.limit, r.priority) )
              => /\ resp'.status = IF KeysNamed(r.apiKey, TRUE) = {} THEN 401 ELSE 403
                 /\ resp'.commands = <<>>
                 /\ commands' = commands
                 /\ rpc' = rpc
                 /\ rbatch' = rbatch]_vars

\* C7 happens: a retrieval for d1 was answered 401 while d1 had a pending command.
C7_Witness ==
    /\ resp.op = "retrieve"
    /\ resp.status = 401
    /\ \E i \in 1..Len(commands) :
          commands[i].device_id = "d1" /\ commands[i].status = "pending"

\* The request bodies of SendBodies that the registry does not accept, with
\* the errors each is answered with.
RejectedBodies ==
    { [body |-> [command_type |-> "PUMP_DURATION", parameters |-> ("duration" :> Num(500))],
       error |-> "Command validation failed",
       details |-> << <<"must be at least", "duration">> >>],
      [body |-> [command_type |-> "PUMP_DURATION", parameters |-> NoParams],
       error |-> "Command validation failed",
       details |-> << <<"Missing required parameter", "duration">> >>],
      [body |-> [command_type |-> "SELF_DESTRUCT", parameters |-> NoParams],
       error |-> "Invalid command type",
       details |-> <<>>] }

CredentialKeys(apiKey, device_id) ==
    {k \in api_keys :
        /\ k.is_active
        /\ k.device_id = device_id
        /\ (k.key_hash = apiKey \/ k.key_hash = Crypt(apiKey, k.key_hash))}

\* C10: an ingest presenting a credential that is unknown, inactive or bound
\* to another device is rejected and appends no reading, changes no cache row
\* and no device row, and creates no alert.
C10_BadCredentialIngestsNothing ==
    [][\A r \in IngestRequests :
          (r.apiKey # NoKey /\ CredentialKeys(r.apiKey, r.device_id) = {})
              => /\ ( /\ resp'.op = "ingest_rpc"
                      /\ insert_sensor_data(r.device_id, r.zone_id, r.sensor_type, r.value, r.apiKey) )
                        => /\ resp'.status # 200
                           /\ UNCHANGED <<sensor_data, realtime_cache, devices, alerts>>
                 /\ \A p \in Ingesters :
                        ( /\ ipc[p] = "idle"
                          /\ (resp'.op = "ingest" \/ ipc'[p] # "idle")
                          /\ DirectIngestInsert(p, r.device_id, r.zone_id, r.sensor_type, r.value,
                                                r.apiKey) )
                            => /\ resp'.status \in {401, 403}
                               /\ UNCHANGED <<sensor_data, realtime_cache, devices, alerts, ipc>>]_vars

\* C11: an ingest naming a zone of another account than the device's is
\* rejected and appends no reading; every stored reading's zone and device
\* belong to one account.
C11_ForeignZoneRejected ==
    [][ /\ \A r \in IngestRequests :
             zones[r.zone_id].user_id # devices[r.device_id].user_id
                 => /\ ( /\ resp'.op = "ingest_rpc"
                         /\ insert_sensor_data(r.device_id, r.zone_id, r.sensor_type, r.value,
                                               r.apiKey) )
                           => resp'.status # 200 /\ sensor_data' = sensor_data
                    /\ \A p \in Ingesters :
                           ( /\ ipc[p] = "idle"
                             /\ (resp'.op = "ingest" \/ ipc'[p] # "idle")
                             /\ DirectIngestInsert(p, r.device_id, r.zone_id, r.sensor_type,
                                                   r.value, r.apiKey) )
                               => resp'.status # 200 /\ sensor_data' = sensor_data
        /\ \A i \in 1..Len(sensor_data') :
             zones[sensor_data'[i].zone_id].user_id = devices[sensor_data'[i].device_id].user_id
      ]_vars

\* The cache fields that hold a sensor type's latest value.
SensorFields == {"moisture_value", "temperature_value", "humidity_value", "light_value"}

FieldOf(sensor_type) ==
    CASE sensor_type = "moisture" -> "moisture_value"
      [] sensor_type = "temperature" -> "temperature_value"
      [] sensor_type = "humidity" -> "humidity_value"
      [] sensor_type = "light" -> "light_value"
      [] OTHER -> "none"

\* The cache row `new` is row `old` with the field of sensor_type set to value,
\* stamped now and fresh, every other sensor field as it was.
PartialUpdate(old, new, sensor_type, value) ==
    /\ new.last_updated = now
    /\ new.data_freshness = 0
    /\ \A f \in SensorFields :
          new[f] = IF f = FieldOf(sensor_type) THEN value ELSE old[f]

\* C12: the cache upsert of an ingest sets the field of the reading's sensor
\* type, last_updated and freshness, and leaves the fields of the other sensor
\* types at their prior values.
C12_CacheUpsertIsPartial ==
    [][ /\ \A r \in IngestRequests :
             ( /\ resp'.op = "ingest_rpc"
               /\ resp'.status = 200
               /\ insert_sensor_data(r.device_id, r.zone_id, r.sensor_type, r.value, r.apiKey) )
                 => PartialUpdate(realtime_cache[<<r.zone_id, r.device_id>>],
                                  realtime_cache'[<<r.zone_id, r.device_id>>],
                                  r.sensor_type, r.value)
        /\ \A p \in Ingesters :
             (ipc[p] = "inserted" /\ ipc'[p] = "cached" /\ DirectIngestCache(p))
                 => PartialUpdate(realtime_cache[<<ireq[p].zone_id, ireq[p].device_id>>],
                                  realtime_cache'[<<ireq[p].zone_id, ireq[p].device_id>>],
                                  ireq[p].sensor_type, ireq[p].value) ]_vars

\* The readings of sensor type ty stored for the pair <<zone, device>>.
ReadingsOf(zd, ty) ==
    {i \in 1..Len(sensor_data) :
        /\ sensor_data[i].zone_id = zd[1]
        /\ sensor_data[i].device_id = zd[2]
        /\ sensor_data[i].sensor_type = ty}

\* The value of the reading appended last among the readings ids, empty if none.
LatestValue(ids) ==
    IF ids = {} THEN NoValue
    ELSE sensor_data[CHOOSE i \in ids : \A j \in ids : j <= i].value

\* C13: with no ingest in flight, every cache row is what replaying the reading
\* log gives: each sensor field is the value of the latest reading of that type
\* for the pair, empty if there is none.
C13_CacheDerivableFromReadings ==
    (\A p \in Ingesters : ipc[p] = "idle")
        => \A zd \in ZoneIds \X DeviceIds :
               \A ty \in {"moisture", "temperature", "humidity", "light"} :
                   realtime_cache[zd][FieldOf(ty)] = LatestValue(ReadingsOf(zd, ty))

\* C14: ingest is all-or-nothing: a call that answers with a failure has left
\* the reading log, the alerts, the cache and the device as they were, and a
\* call that answers with success has appended the reading, written the cache
\* row of its (zone, device) pair and stamped the device.
C14_IngestAllOrNothing ==
    [][ /\ (resp'.op \in {"ingest", "ingest_rpc"} /\ resp'.status # 200)
               => UNCHANGED <<sensor_data, alerts, realtime_cache, devices>>
        /\ (resp'.op = "ingest_rpc" /\ resp'.status = 200)
               => /\ Len(sensor_data') = Len(sensor_data) + 1
                  /\ LET reading == sensor_data'[Len(sensor_data')] IN
                     /\ realtime_cache'[<<reading.zone_id, reading.device_id>>].present
                     /\ realtime_cache'[<<reading.zone_id, reading.device_id>>]
                            [FieldOf(reading.sensor_type)] = reading.value
                     /\ devices'[reading.device_id].last_seen = now
        /\ \A p \in Ingesters :
             (ipc[p] = "cached" /\ resp'.op = "ingest" /\ resp'.status = 200)
                 => /\ \E i \in 1..Len(sensor_data') :
                         /\ sensor_data'[i].device_id = ireq[p].device_id
                         /\ sensor_data'[i].zone_id = ireq[p].zone_id
                         /\ sensor_data'[i].sensor_type = ireq[p].sensor_type
                         /\ sensor_data'[i].value = ireq[p].value
                    /\ realtime_cache'[<<ireq[p].zone_id, ireq[p].device_id>>].present
                    /\ realtime_cache'[<<ireq[p].zone_id, ireq[p].device_id>>]
                           [FieldOf(ireq[p].sensor_type)] # NoValue
                    /\ devices'[ireq[p].device_id].last_seen = now ]_vars

\* C15: a successful ingest leaves the device with last_seen = now, is_online
\* true and connection_status connected.
C15_IngestMarksDeviceConnected ==
    [][ /\ \A r \in IngestRequests :
             ( /\ resp'.op = "ingest_rpc"
               /\ resp'.status = 200
               /\ insert_sensor_data(r.device_id, r.zone_id, r.sensor_type, r.value, r.apiKey) )
                 => /\ devices'[r.device_id].last_seen = now
                    /\ devices'[r.device_id].is_online
                    /\ devices'[r.device_id].connection_status = "connected"
        /\ \A p \in Ingesters :
             (ipc[p] = "cached" /\ resp'.op = "ingest" /\ resp'.status = 200)
                 => /\ devices'[ireq[p].device_id].last_seen = now
                    /\ devices'[ireq[p].device_id].is_online
                    /\ devices'[ireq[p].device_id].connection_status = "connected" ]_vars

\* The hint the contract defines for a reading in a zone.
HintDue(sensor_type, value, zone) ==
    /\ sensor_type = "moisture"
    /\ zone.moisture_threshold # NoValue
    /\ value < zone.moisture_threshold

\* C16: a successful ingest answers irrigation_needed = true exactly when the
\* reading is a moisture reading strictly below the zone's threshold and the
\* threshold is set.
C16_IrrigationHintMatchesThreshold ==
    [][ /\ \A r \in IngestRequests :
             ( /\ resp'.op = "ingest_rpc"
               /\ resp'.status = 200
               /\ insert_sensor_data(r.device_id, r.zone_id, r.sensor_type, r.value, r.apiKey) )
                 => resp'.irrigation_needed = HintDue(r.sensor_type, r.value, zones[r.zone_id])
        /\ \A p \in Ingesters :
             (ipc[p] = "cached" /\ resp'.op = "ingest" /\ resp'.status = 200)
                 => resp'.irrigation_needed =
                        HintDue(ireq[p].sensor_type, ireq[p].value, zones[ireq[p].zone_id]) ]_vars

(***************************************************************************)
(* Properties of the alert rules.                                          *)
(***************************************************************************)
\* The alert rules of the contract: a reading of sensor_type whose value is
\* strictly on the named side of the limit raises alert_type at severity.
AlertRules ==
    { [sensor_type |-> "moisture", side |-> "below", limit |-> 20,
       alert_type |-> "low_moisture", severity |-> "critical"],
      [sensor_type |-> "temperature", side |-> "above", limit |-> 35,
       alert_type |-> "high_temperature", severity |-> "high"],
      [sensor_type |-> "humidity", side |-> "below", limit |-> 30,
       alert_type |-> "low_humidity", severity |-> "medium"] }

RulesMatching(reading) ==
    { r \in AlertRules :
        /\ r.sensor_type = reading.sensor_type
        /\ IF r.side = "below" THEN reading.value < r.limit ELSE reading.value > r.limit }

\* C17: every step that appends a reading appends exactly one unread alert of
\* the matching rule's type and severity when the reading matches a rule, and
\* no alert when it matches none (a value on the limit, light, an unnamed
\* sensor type); a step that appends no reading leaves the alerts as they were.
C17_OneAlertPerMatchingReading ==
    [][ IF Len(sensor_data') = Len(sensor_data) + 1
        THEN LET reading == sensor_data'[Len(sensor_data')]
                 created == SubSeq(alerts', Len(alerts) + 1, Len(alerts'))
             IN  /\ Len(alerts') >= Len(alerts)
                 /\ SubSeq(alerts', 1, Len(alerts)) = alerts
                 /\ IF RulesMatching(reading) = {}
                    THEN created = <<>>
                    ELSE /\ Len(created) = 1
                         /\ ~created[1].is_read
                         /\ created[1].device_id = reading.device_id
                         /\ created[1].zone_id = reading.zone_id
                         /\ \E r \in RulesMatching(reading) :
                                /\ created[1].alert_type = r.alert_type
                                /\ created[1].severity = r.severity
        ELSE alerts' = alerts ]_vars

\* Temperature 35 and temperature 36 were both accepted and the only alert is
\* one unread high_temperature/high alert.
C17_Witness ==
    /\ \E i \in 1..Len(sensor_data) :
           sensor_data[i].sensor_type = "temperature" /\ sensor_data[i].value = 35
    /\ \E i \in 1..Len(sensor_data) :
           sensor_data[i].sensor_type = "temperature" /\ sensor_data[i].value = 36
    /\ Len(alerts) = 1
    /\ alerts[1].alert_type = "high_temperature"
    /\ alerts[1].severity = "high"
    /\ ~alerts[1].is_read

\* C18: alerts are not deduplicated: the number of alert rows equals the
\* number of stored readings that match a rule.
C18_AlertPerQualifyingReading ==
    Len(alerts) = Cardinality({ i \in 1..Len(sensor_data) : RulesMatching(sensor_data[i]) # {} })

\* Two identical qualifying readings were accepted and there are two equal alerts.
C18_Witness ==
    /\ Len(sensor_data) = 2
    /\ sensor_data[1] = sensor_data[2]
    /\ RulesMatching(sensor_data[1]) # {}
    /\ Len(alerts) = 2
    /\ alerts[1] = alerts[2]

(***************************************************************************)
(* Properties of a command's life from enqueue to its end.                 *)
(***************************************************************************)
\* C19: once a command has been reported executed it is not handed out again:
\* a retrieval never answers with a command whose stored status is executed,
\* and a retrieval that answers while no command of its device is pending
\* answers 200 with the empty list.
C19_ExecutedNeverRedelivered ==
    [][ /\ \A i \in 1..Len(commands) :
             (resp'.op = "retrieve" /\ resp'.status = 200 /\ commands[i].status = "executed")
                 => i \notin SeqRange(resp'.commands)
        /\ \A p \in Retrievers :
             ( /\ rpc[p] = "selected"
               /\ resp'.op = "retrieve"
               /\ \A i \in 1..Len(commands) :
                      commands[i].device_id = rdev[p] => commands[i].status # "pending" )
                 => resp'.status = 200 /\ resp'.commands = <<>> ]_vars

\* C20: no command stays in_progress forever: a command that is in_progress
\* eventually leaves that status (by a report or by the timeout sweep).
C20_InProgressEventuallyLeft ==
    \A i \in 1..MaxCmds :
        (i <= Len(commands) /\ commands[i].status = "in_progress")
            ~> (i <= Len(commands) /\ commands[i].status # "in_progress")

(***************************************************************************)
(* Properties of command validation.                                       *)
(***************************************************************************)
\* C21: for every command type of the registry a parameters object holding
\* exactly the required parameters, with values in range, passes validation,
\* and an object that lacks a required parameter fails it with an error that
\* names each missing parameter; a failed validation writes nothing.
C21_ValidateRequiredParameters ==
    [][ \A r \in ValidateRequests :
          (resp'.op = "send" /\ handleCommandSend(r.user, r.device_id, r.body, r.priority))
              => LET required == SeqRange(COMMAND_SCHEMAS[r.body.command_type].required)
                     missing == required \ DOMAIN r.body.parameters
                 IN  /\ ( /\ DOMAIN r.body.parameters = required
                          /\ \/ r.body.parameters = MinimalParameters[r.body.command_type]
                             \/ r.body.parameters["duration"] \in {Num(1001), Num(300000)} )
                            => resp'.status = 200
                     /\ missing # {}
                            => /\ resp'.status = 400
                               /\ resp'.error = "Command validation failed"
                               /\ \A param \in missing :
                                      <<"Missing required parameter", param>>
                                          \in SeqRange(resp'.details)
                               /\ UNCHANGED <<commands, command_logs, devices, api_keys>> ]_vars

\* A CALIBRATE_SENSOR command with its three required parameters was accepted
\* and a later one without max_value was refused with the error naming it.
C21_Witness ==
    /\ \E i \in 1..Len(commands) : commands[i].command_type = "CALIBRATE_SENSOR"
    /\ resp.op = "send"
    /\ resp.status = 400
    /\ resp.details = << <<"Missing required parameter", "max_value">> >>

\* The duration denotes a number of milliseconds within [1000, 300000].
DurationInRange(v) ==
    ~ToNumber(v).nan /\ 1000 <= ToNumber(v).n /\ ToNumber(v).n <= 300000

\* C22: a PUMP_DURATION command that carries a duration passes validation
\* exactly when the duration lies in the inclusive range [1000, 300000].
C22_PumpDurationRange ==
    [][ \A r \in ValidateRequests :
          ( /\ r.body.command_type = "PUMP_DURATION"
            /\ "duration" \in DOMAIN r.body.parameters
            /\ resp'.op = "send"
            /\ handleCommandSend(r.user, r.device_id, r.body, r.priority) )
              => (resp'.status = 200 <=> DurationInRange(r.body.parameters["duration"])) ]_vars

(***************************************************************************)
(* Properties of presence.                                                 *)
(***************************************************************************)
\* The four classes of the contract, by age in seconds.
PresenceClass(age) ==
    IF age < 60 THEN "live"
    ELSE IF age < 300 THEN "recent"
    ELSE IF age < 900 THEN "stale"
    ELSE "offline"

\* C23: the presence class read for a device that has reported is the class
\* of its age now - last_seen (live below 60 s, recent below 300 s, stale
\* below 900 s, offline from there on), and reading it writes nothing.
C23_PresenceIsFunctionOfAge ==
    [][ \A zone_id \in ZoneIds, device_id \in DeviceIds :
          ( /\ resp'.op = "zone_status"
            /\ realtime_cache[<<zone_id, device_id>>].present
            /\ zone_status(zone_id, device_id) )
              => /\ resp'.details = <<PresenceClass(now - devices[device_id].last_seen)>>
                 /\ UNCHANGED <<devices, ingestVars, queueVars>> ]_vars

\* C24: a heartbeat with a valid credential, sent as the firmware sends it or
\* with no status at all, sets the device's last_seen and last_heartbeat to
\* the current time, marks it online and connected, and leaves the sensor
\* readings, the freshness cache and the alerts unchanged.
C24_HeartbeatMarksConnected ==
    [][\A r \in HeartbeatRequests :
          ( /\ r.is_online /\ r.status \in {Undefined, "online"}
            /\ r.device_id # NoDevice /\ r.apiKey # NoKey
            /\ IsSingle(ActiveKeyRows(r.apiKey))
            /\ Single(ActiveKeyRows(r.apiKey)).device_id = r.device_id
            /\ resp'.op = "heartbeat"
            /\ handleHeartbeat(r.device_id, r.status, r.is_online, r.apiKey) )
          => /\ resp'.status = 200
             /\ devices'[r.device_id].last_seen = now
             /\ devices'[r.device_id].last_heartbeat = now
             /\ devices'[r.device_id].is_online
             /\ devices'[r.device_id].connection_status = "connected"
             /\ UNCHANGED <<sensor_data, realtime_cache, alerts>>]_vars

\* C25: after any sequence of registrations, heartbeats, ingests and status
\* updates, every device's connection_status is connected, disconnected or
\* error.
C25_ConnectionStatusDomain ==
    \A d \in DOMAIN devices :
        devices[d].connection_status \in {"connected", "disconnected", "error"}

\* C26: key generation never leaves a device with more than one active API
\* key, whatever the order of createDevice's automatic generation and the
\* explicit generateApiKey calls, overlapping calls included.
C26_OneActiveKeyPerDevice ==
    \A d \in DOMAIN devices :
        Cardinality({k \in api_keys : k.device_id = d /\ k.is_active}) <= 1

\* C27: in a pass of the firmware's loop made while the WiFi is down and a
\* send interval has elapsed, the interval's readings are stored in the
\* buffer; and in every pass, a reading that leaves the buffer has been
\* delivered to the server or was displaced from a full buffer by a newer
\* reading.
C27_OfflineBuffering ==
    [][\A wifi \in BOOLEAN, elapsed \in BOOLEAN, answeredBuffered \in Answered,
         answeredSend \in Answered :
          loop(wifi, elapsed, answeredBuffered, answeredSend)
          => /\ (~wifi /\ elapsed)
                  => /\ lastReading' = lastReading + 1
                     /\ \A i \in DOMAIN SensorTypes :
                            <<lastReading', SensorTypes[i]>> \in Range(dataBuffer')
             /\ \A r \in Range(dataBuffer) \ Range(dataBuffer') :
                    \/ r \in delivered'
                    \/ Len(dataBuffer) = maxBufferSize /\ Len(dataBuffer') = maxBufferSize
                                                       /\ lastReading' > lastReading]_vars

\* C28: in every state, an executed command has executed_at and completed_at
\* set, a failed or timed-out command has completed_at set, and a pending
\* or in_progress command has neither of the two set.
C28_TimestampsMatchStatus ==
    \A i \in 1..Len(commands) :
        /\ commands[i].status = "executed"
              => commands[i].executed_at # NoTime /\ commands[i].completed_at # NoTime
        /\ commands[i].status \in {"failed", "timeout"} => commands[i].completed_at # NoTime
        /\ commands[i].status \in {"pending", "in_progress"}
              => commands[i].executed_at = NoTime /\ commands[i].completed_at = NoTime

\* C29: a command that has left pending is never pending, and so never
\* retrievable, again, whatever call is made.
C29_NeverPendingAgain ==
    [][\A i \in 1..Len(commands) :
          commands[i].status # "pending" => commands'[i].status # "pending"]_vars

\* C30: a report changes the commands only when its credential is active
\* and bound to the device of the command it names.
C30_ReportNeedsActiveBoundKey ==
    [][\A r \in ReportRequests :
          ( /\ resp'.op = "report"
            /\ handleCommandStatusUpdate(r.command_id, r.status, r.apiKey)
            /\ commands' # commands )
          => /\ r.apiKey # NoKey
             /\ IsSingle(ActiveKeyRows(r.apiKey))
             /\ r.command_id \in 1..Len(commands)
             /\ Single(ActiveKeyRows(r.apiKey)).device_id = commands[r.command_id].device_id]_vars

====
